---------------------------- MODULE Spec2Model ----------------------------
(***************************************************************************)
(* State-machine model of the task-list client in frontend/src/App.vue.    *)
(*                                                                         *)
(* The client is single threaded: every handler runs to its next `await`   *)
(* in one step, and the continuation after the `await` runs in one later   *)
(* step when the response (or the failure) of its request is delivered.    *)
(* Requests in flight are kept in the bag `net`; each one remembers the    *)
(* closure variables of the handler that awaits it.                        *)
(*                                                                         *)
(* Strings are sequences of characters, so that String.prototype.trim is   *)
(* computed and not assumed.  JavaScript objects have identity: every      *)
(* record of `todos` carries the tag `obj` of the object it is, and a      *)
(* handler that captured an object (toggleTodoStatus) writes to that       *)
(* object whether or not it is still an element of the list.               *)
(***************************************************************************)
EXTENDS Integers, Sequences, FiniteSets, Bags, TLC

(***************************************************************************)
(* Bounds of the model.                                                    *)
(***************************************************************************)
MaxTitleLen == 1        \* longest text typed into an input box
MaxId       == 2        \* the server assigns the ids 1..MaxId
MaxInFlight == 2        \* requests outstanding at the same time
MaxRequests == 3        \* requests issued in one run

(***************************************************************************)
(* Values.                                                                 *)
(***************************************************************************)
Chars    == {" ", "a"}
Texts    == UNION {[1..n -> Chars] : n \in 0..MaxTitleLen}
EmptyStr == << >>
\* JavaScript's null, as the value of editingTaskId (ids are positive) and
\* as the value of a description.
NullId   == 0
NullDesc == "<null>"
Descriptions == {NullDesc, "urgent"}

VARIABLES
    todos,          \* ref([])   the local task list, a sequence of objects
    newTaskTitle,   \* ref('')   the text of the "Add" input box
    editingTaskId,  \* ref(null) the id of the task being edited
    editingTitle,   \* ref('')   the draft title of the edit
    mounted,        \* whether the component is mounted (onMounted has run)
    net,            \* the bag of requests in flight, with their closures
    tasks,          \* the server's collection, in id order
    nextId,         \* the id the server assigns next
    issued,         \* the number of requests issued so far
    ev              \* the last step taken: the handler and its inputs

vars == <<todos, newTaskTitle, editingTaskId, editingTitle, mounted, net,
          tasks, nextId, issued, ev>>
client == <<todos, newTaskTitle, editingTaskId, editingTitle>>
server == <<tasks, nextId>>

(***************************************************************************)
(* Pure helpers.                                                           *)
(***************************************************************************)
IsSpace(c) == c = " "

RECURSIVE TrimStart(_)
TrimStart(s) ==
    IF s # << >> /\ IsSpace(Head(s)) THEN TrimStart(Tail(s)) ELSE s

RECURSIVE TrimEnd(_)
TrimEnd(s) ==
    IF s # << >> /\ IsSpace(s[Len(s)])
    THEN TrimEnd(SubSeq(s, 1, Len(s) - 1)) ELSE s

\* String.prototype.trim
Trim(s) == TrimEnd(TrimStart(s))

\* newTaskTitle.value.trim() === ''   (IsBlankNoTrim: the test without
\* the trim)
IsBlankNoTrim(s) == s = EmptyStr
IsBlank(s) == Trim(s) = EmptyStr

Min(S) == CHOOSE x \in S : \A y \in S : x <= y

\* The object tags in use: the objects of a list and the objects captured
\* by the toggles in flight.  An object nothing refers to is garbage.
Captured(bag) ==
    {r.todo : r \in {q \in BagToSet(bag) : q.from = "toggleTodoStatus"}}
ObjsOf(list) == {list[i].obj : i \in DOMAIN list}

\* The tag of a new object: the least one not in use.
FreshObj(used) == Min((1..(Cardinality(used) + 1)) \ used)

RECURSIVE FreshObjs(_, _)
FreshObjs(n, used) ==
    IF n = 0 THEN << >>
    ELSE LET o == FreshObj(used) IN <<o>> \o FreshObjs(n - 1, used \cup {o})

\* The object made of a record of a response body.
AsObject(rec, o) ==
    [obj |-> o, id |-> rec.id, title |-> rec.title,
     description |-> rec.description, is_completed |-> rec.is_completed]

\* The record an object serialises to (JSON.stringify of a todo).
AsRecord(t) ==
    [id |-> t.id, title |-> t.title,
     description |-> t.description, is_completed |-> t.is_completed]

(***************************************************************************)
(* Requests.  `from` names the handler that awaits the request, `todo` and *)
(* `originalStatus` are its closure variables, `body` holds the request    *)
(* body (or nothing) and `data` the response body once it is there.        *)
(***************************************************************************)
Request(from, method, id, body, todo, originalStatus) ==
    [from |-> from, method |-> method, id |-> id, body |-> body,
     todo |-> todo, originalStatus |-> originalStatus,
     phase |-> "sent", data |-> << >>]

Send(r) ==
    /\ net' = net (+) SetToBag({r})
    /\ issued' = issued + 1
Settle(r) ==
    /\ net' = net (-) SetToBag({r})
    /\ UNCHANGED issued
InFlight == BagToSet(net)
Awaiting(from, phase) == {r \in InFlight : r.from = from /\ r.phase = phase}
CanSend ==
    /\ BagCardinality(net) < MaxInFlight
    /\ issued < MaxRequests

Event(op, req, row, confirmed) ==
    [op |-> op, req |-> req, row |-> row, confirmed |-> confirmed]

Init ==
    /\ todos = << >>
    /\ newTaskTitle = EmptyStr
    /\ editingTaskId = NullId
    /\ editingTitle = EmptyStr
    /\ mounted = FALSE
    /\ net = EmptyBag
    /\ issued = 0
    /\ \E n \in 0..1, d \in Descriptions, c \in BOOLEAN :
          tasks = [i \in 1..n |-> [id |-> i, title |-> <<"a">>,
                                   description |-> d, is_completed |-> c]]
    /\ nextId = Len(tasks) + 1
    /\ ev = Event("setup", << >>, 0, FALSE)

(***************************************************************************)
(* onMounted: fetch the initial data.                                      *)
(***************************************************************************)
onMounted ==
    /\ ~mounted
    /\ mounted' = TRUE
    /\ LET r == Request("onMounted", "GET", NullId, << >>, 0, FALSE) IN
          /\ Send(r)
          /\ ev' = Event("onMounted", <<r>>, 0, FALSE)
    /\ UNCHANGED <<client, server>>

(***************************************************************************)
(* v-model="newTaskTitle": the user types into the "Add" input box.        *)
(***************************************************************************)
TypeNewTaskTitle ==
    /\ mounted
    /\ \E s \in Texts :
          /\ s # newTaskTitle
          /\ newTaskTitle' = s
    /\ ev' = Event("typeNewTaskTitle", << >>, 0, FALSE)
    /\ UNCHANGED <<todos, editingTaskId, editingTitle, mounted, net, issued, server>>

(***************************************************************************)
(* 1. ADD TASK                                                             *)
(***************************************************************************)
\* The body of the POST: { title: newTaskTitle.value, is_completed: false }
AddTaskBody(draft) == [title |-> draft, is_completed |-> FALSE]

\* todos.value.push(response.data)   (PushFront: unshift in its place)
PushFront(list, t) == <<t>> \o list
Push(list, t) == Append(list, t)

\* addTask up to its await.
addTask ==
    /\ mounted
    /\ IF IsBlank(newTaskTitle)
       THEN /\ ev' = Event("addTask", << >>, 0, FALSE)
            /\ UNCHANGED <<net, issued>>
       ELSE /\ CanSend
            /\ LET r == Request("addTask", "POST", NullId,
                                <<AddTaskBody(newTaskTitle)>>, 0, FALSE) IN
                  /\ Send(r)
                  /\ ev' = Event("addTask", <<r>>, 0, FALSE)
    /\ UNCHANGED <<client, mounted, server>>

\* addTask after its await, the request having succeeded.
addTaskOk ==
    \E r \in Awaiting("addTask", "ok") :
        /\ todos' = Push(todos, AsObject(r.data[1],
                                 FreshObj(ObjsOf(todos) \cup Captured(net))))
        /\ newTaskTitle' = EmptyStr
        /\ Settle(r)
        /\ ev' = Event("addTaskOk", <<r>>, 0, FALSE)
        /\ UNCHANGED <<editingTaskId, editingTitle, mounted, server>>

\* addTask's catch: console.error only.   (CaughtDraftCleared: a catch
\* that empties the input box as the success path does)
CaughtDraftCleared(draft) == EmptyStr
CaughtDraft(draft) == draft

addTaskFail ==
    \E r \in Awaiting("addTask", "fail") :
        /\ newTaskTitle' = CaughtDraft(newTaskTitle)
        /\ Settle(r)
        /\ ev' = Event("addTaskFail", <<r>>, 0, FALSE)
        /\ UNCHANGED <<todos, editingTaskId, editingTitle, mounted, server>>

(***************************************************************************)
(* 2. DELETE TASK                                                          *)
(***************************************************************************)
\* A row shows its edit form when editingTaskId === todo.id, and its title
\* with the edit and delete buttons otherwise.
InEditMode(t) == editingTaskId = t.id

\* if (!confirm(...)) return;   (NeverDeclined: the answer ignored)
NeverDeclined(confirmed) == FALSE
Declined(confirmed) == ~confirmed

\* todos.value.filter(todo => todo.id !== id)   (FilterInverted: === for
\* !==)
FilterInverted(list, id) == SelectSeq(list, LAMBDA t : t.id = id)
Filter(list, id) == SelectSeq(list, LAMBDA t : t.id # id)

\* deleteTask(todo.id) up to its await; `confirmed` is the user's answer.
deleteTask ==
    /\ mounted
    /\ \E i \in DOMAIN todos, confirmed \in BOOLEAN :
          /\ ~InEditMode(todos[i])
          /\ IF Declined(confirmed)
             THEN /\ ev' = Event("deleteTask", << >>, i, confirmed)
                  /\ UNCHANGED <<net, issued>>
             ELSE /\ CanSend
                  /\ LET r == Request("deleteTask", "DELETE", todos[i].id,
                                      << >>, 0, FALSE) IN
                        /\ Send(r)
                        /\ ev' = Event("deleteTask", <<r>>, i, confirmed)
    /\ UNCHANGED <<client, mounted, server>>

deleteTaskOk ==
    \E r \in Awaiting("deleteTask", "ok") :
        /\ todos' = Filter(todos, r.id)
        /\ Settle(r)
        /\ ev' = Event("deleteTaskOk", <<r>>, 0, FALSE)
        /\ UNCHANGED <<newTaskTitle, editingTaskId, editingTitle, mounted,
                       server>>

deleteTaskFail ==
    \E r \in Awaiting("deleteTask", "fail") :
        /\ Settle(r)
        /\ ev' = Event("deleteTaskFail", <<r>>, 0, FALSE)
        /\ UNCHANGED <<client, mounted, server>>

(***************************************************************************)
(* 3. EDIT TASK                                                            *)
(***************************************************************************)
\* editingTaskId.value = todo.id; editingTitle.value = todo.title
\* (EditDraftEmpty: the title not copied)
EditDraftEmpty(t) == EmptyStr
EditDraft(t) == t.title

startEditing ==
    /\ mounted
    /\ \E i \in DOMAIN todos :
          /\ ~InEditMode(todos[i])
          /\ editingTaskId' = todos[i].id
          /\ editingTitle' = EditDraft(todos[i])
          /\ ev' = Event("startEditing", << >>, i, FALSE)
    /\ UNCHANGED <<todos, newTaskTitle, mounted, net, issued, server>>

\* v-model="editingTitle": the user types into the edit input of a row that
\* is in edit mode.
TypeEditingTitle ==
    /\ mounted
    /\ \E i \in DOMAIN todos, s \in Texts :
          /\ InEditMode(todos[i])
          /\ s # editingTitle
          /\ editingTitle' = s
          /\ ev' = Event("typeEditingTitle", << >>, i, FALSE)
    /\ UNCHANGED <<todos, newTaskTitle, editingTaskId, mounted, net, issued, server>>

\* The body of saveEdit's PUT.   (SaveEditBodyReset: the existing fields
\* not kept)
SaveEditBodyReset(t, draft) ==
    [title |-> draft, description |-> NullDesc, is_completed |-> FALSE]
SaveEditBody(t, draft) ==
    [title |-> draft, description |-> t.description,
     is_completed |-> t.is_completed]

\* saveEdit(todo) up to its await.
saveEdit ==
    /\ mounted
    /\ CanSend
    /\ \E i \in DOMAIN todos :
          /\ InEditMode(todos[i])
          /\ LET r == Request("saveEdit", "PUT", todos[i].id,
                              <<SaveEditBody(todos[i], editingTitle)>>,
                              0, FALSE) IN
                /\ Send(r)
                /\ ev' = Event("saveEdit", <<r>>, i, FALSE)
    /\ UNCHANGED <<client, mounted, server>>

\* todos.value.findIndex(t => t.id === todo.id), 0 standing for -1
FindIndex(list, id) ==
    LET hit == {i \in DOMAIN list : list[i].id = id} IN
    IF hit = {} THEN 0 ELSE Min(hit)

\* if (index !== -1) { todos.value[index] = response.data; }
\* (ReplacedAtEnd: the entry removed and the record pushed; ReplacedOrPushed:
\* the record pushed when no entry has the id)
ReplacedOrPushed(list, id, t) ==
    LET hit == {i \in DOMAIN list : list[i].id = id} IN
    IF hit # {} THEN [list EXCEPT ![Min(hit)] = t] ELSE Append(list, t)
ReplacedAtEnd(list, id, t) ==
    IF FindIndex(list, id) = 0 THEN list
    ELSE Append(Filter(list, id), t)
Replaced(list, id, t) ==
    LET index == FindIndex(list, id) IN
    IF index # 0 THEN [list EXCEPT ![index] = t] ELSE list

\* saveEdit after its await, the request having succeeded; it ends with
\* the call of cancelEdit.
saveEditOk ==
    \E r \in Awaiting("saveEdit", "ok") :
        /\ LET used == ObjsOf(todos) \cup Captured(net) IN
              todos' = Replaced(todos, r.id,
                                AsObject(r.data[1], FreshObj(used)))
        /\ editingTaskId' = NullId
        /\ editingTitle' = EmptyStr
        /\ Settle(r)
        /\ ev' = Event("saveEditOk", <<r>>, 0, FALSE)
        /\ UNCHANGED <<newTaskTitle, mounted, server>>

\* saveEdit's catch: console.error only.   (CaughtSessionCleared: a catch
\* that also leaves edit mode)
CaughtSessionCleared(id) == NullId
CaughtSession(id) == id

saveEditFail ==
    \E r \in Awaiting("saveEdit", "fail") :
        /\ editingTaskId' = CaughtSession(editingTaskId)
        /\ Settle(r)
        /\ ev' = Event("saveEditFail", <<r>>, 0, FALSE)
        /\ UNCHANGED <<todos, newTaskTitle, editingTitle, mounted, server>>

\* cancelEdit, called from the cancel button of a row in edit mode.
cancelEdit ==
    /\ mounted
    /\ \E i \in DOMAIN todos :
          /\ InEditMode(todos[i])
          /\ ev' = Event("cancelEdit", << >>, i, FALSE)
    /\ editingTaskId' = NullId
    /\ editingTitle' = EmptyStr
    /\ UNCHANGED <<todos, newTaskTitle, mounted, net, issued, server>>

(***************************************************************************)
(* 4. TOGGLE STATUS                                                        *)
(***************************************************************************)
\* todo.is_completed = !todo.is_completed
Flipped(t) == [t EXCEPT !.is_completed = ~t.is_completed]

\* toggleTodoStatus(todo) up to its await: the flip and the PUT of the
\* whole object.   (toggleTodoStatusLeavesEdit: a toggle that also turns
\* edit mode off)
toggleTodoStatusLeavesEdit ==
    /\ mounted
    /\ CanSend
    /\ \E i \in DOMAIN todos :
          LET originalStatus == todos[i].is_completed
              todo == Flipped(todos[i])
              r == Request("toggleTodoStatus", "PUT", todo.id,
                           <<AsRecord(todo)>>, todo.obj, originalStatus)
          IN  /\ todos' = [todos EXCEPT ![i] = todo]
              /\ Send(r)
              /\ ev' = Event("toggleTodoStatus", <<r>>, i, FALSE)
    /\ editingTaskId' = NullId
    /\ UNCHANGED <<newTaskTitle, editingTitle, mounted, server>>

toggleTodoStatus ==
    /\ mounted
    /\ CanSend
    /\ \E i \in DOMAIN todos :
          LET originalStatus == todos[i].is_completed
              todo == Flipped(todos[i])
              r == Request("toggleTodoStatus", "PUT", todo.id,
                           <<AsRecord(todo)>>, todo.obj, originalStatus)
          IN  /\ todos' = [todos EXCEPT ![i] = todo]
              /\ Send(r)
              /\ ev' = Event("toggleTodoStatus", <<r>>, i, FALSE)
    /\ UNCHANGED <<newTaskTitle, editingTaskId, editingTitle, mounted, server>>

toggleTodoStatusOk ==
    \E r \in Awaiting("toggleTodoStatus", "ok") :
        /\ Settle(r)
        /\ ev' = Event("toggleTodoStatusOk", <<r>>, 0, FALSE)
        /\ UNCHANGED <<client, mounted, server>>

\* todo.is_completed = originalStatus, a write to the captured object,
\* which shows in the list if the object is still an element of it.
Reverted(list, o, originalStatus) ==
    [i \in DOMAIN list |->
        IF list[i].obj = o
        THEN [list[i] EXCEPT !.is_completed = originalStatus]
        ELSE list[i]]

toggleTodoStatusFail ==
    \E r \in Awaiting("toggleTodoStatus", "fail") :
        /\ todos' = Reverted(todos, r.todo, r.originalStatus)
        /\ Settle(r)
        /\ ev' = Event("toggleTodoStatusFail", <<r>>, 0, FALSE)
        /\ UNCHANGED <<newTaskTitle, editingTaskId, editingTitle, mounted,
                       server>>

(***************************************************************************)
(* onMounted after its await.                                              *)
(***************************************************************************)
\* todos.value = response.data   (LoadedAppended: the response body added
\* to the list in place of replacing it)
LoadedAppended(list, data, used) ==
    LET objs == FreshObjs(Len(data), used) IN
    list \o [i \in DOMAIN data |-> AsObject(data[i], objs[i])]
Loaded(list, data, used) ==
    LET objs == FreshObjs(Len(data), used) IN
    [i \in DOMAIN data |-> AsObject(data[i], objs[i])]

onMountedOk ==
    \E r \in Awaiting("onMounted", "ok") :
        /\ todos' = Loaded(todos, r.data, Captured(net) \cup ObjsOf(todos))
        /\ Settle(r)
        /\ ev' = Event("onMountedOk", <<r>>, 0, FALSE)
        /\ UNCHANGED <<newTaskTitle, editingTaskId, editingTitle, mounted,
                       server>>

\* onMounted's catch: console.error only.   (onMountedFailEmptied: a
\* catch that empties the list)
onMountedFailEmptied ==
    \E r \in Awaiting("onMounted", "fail") :
        /\ todos' = << >>
        /\ Settle(r)
        /\ ev' = Event("onMountedFail", <<r>>, 0, FALSE)
        /\ UNCHANGED <<newTaskTitle, editingTaskId, editingTitle, mounted,
                       server>>

onMountedFail ==
    \E r \in Awaiting("onMounted", "fail") :
        /\ Settle(r)
        /\ ev' = Event("onMountedFail", <<r>>, 0, FALSE)
        /\ UNCHANGED <<client, mounted, server>>

(***************************************************************************)
(* The remote collection resource.  It serves one request at a time, and   *)
(* any request may fail (network failure, non-success status) without      *)
(* effect on the collection.                                               *)
(***************************************************************************)
Sent(method) == {r \in InFlight : r.method = method /\ r.phase = "sent"}
Answer(r, data) ==
    /\ net' = (net (-) SetToBag({r}))
                 (+) SetToBag({[r EXCEPT !.phase = "ok", !.data = data]})
    /\ ev' = Event("serve", <<r>>, 0, FALSE)
    /\ UNCHANGED issued
Exists(id) == \E i \in DOMAIN tasks : tasks[i].id = id

\* GET /tasks/
ServeList ==
    \E r \in Sent("GET") :
        /\ Answer(r, tasks)
        /\ UNCHANGED <<client, mounted, server>>

\* POST /tasks/
ServeCreate ==
    \E r \in Sent("POST") :
        /\ nextId <= MaxId
        /\ LET rec == [id |-> nextId, title |-> r.body[1].title,
                       description |-> NullDesc,
                       is_completed |-> r.body[1].is_completed] IN
              /\ tasks' = Append(tasks, rec)
              /\ Answer(r, <<rec>>)
        /\ nextId' = nextId + 1
        /\ UNCHANGED <<client, mounted>>

\* PUT /tasks/{id}/
ServeReplace ==
    \E r \in Sent("PUT") :
        /\ Exists(r.id)
        /\ LET rec == [id |-> r.id, title |-> r.body[1].title,
                       description |-> r.body[1].description,
                       is_completed |-> r.body[1].is_completed] IN
              /\ tasks' = [i \in DOMAIN tasks |->
                              IF tasks[i].id = r.id THEN rec ELSE tasks[i]]
              /\ Answer(r, <<rec>>)
        /\ UNCHANGED <<client, mounted, nextId>>

\* DELETE /tasks/{id}/
ServeDelete ==
    \E r \in Sent("DELETE") :
        /\ Exists(r.id)
        /\ tasks' = SelectSeq(tasks, LAMBDA t : t.id # r.id)
        /\ Answer(r, << >>)
        /\ UNCHANGED <<client, mounted, nextId>>

RequestFails ==
    \E r \in {q \in InFlight : q.phase = "sent"} :
        /\ net' = (net (-) SetToBag({r}))
                     (+) SetToBag({[r EXCEPT !.phase = "fail"]})
        /\ ev' = Event("fail", <<r>>, 0, FALSE)
        /\ UNCHANGED issued
        /\ UNCHANGED <<client, mounted, server>>

Next ==
    \/ onMounted
    \/ TypeNewTaskTitle
    \/ addTask
    \/ addTaskOk
    \/ addTaskFail
    \/ deleteTask
    \/ deleteTaskOk
    \/ deleteTaskFail
    \/ startEditing
    \/ TypeEditingTitle
    \/ saveEdit
    \/ saveEditOk
    \/ saveEditFail
    \/ cancelEdit
    \/ toggleTodoStatus
    \/ toggleTodoStatusOk
    \/ toggleTodoStatusFail
    \/ onMountedOk
    \/ onMountedFail
    \/ ServeList
    \/ ServeCreate
    \/ ServeReplace
    \/ ServeDelete
    \/ RequestFails

Spec == Init /\ [][Next]_vars

\* The component where no request ever fails: no request is rejected, so no
\* catch block runs.
NextNoFail ==
    \/ onMounted
    \/ TypeNewTaskTitle
    \/ addTask
    \/ addTaskOk
    \/ deleteTask
    \/ deleteTaskOk
    \/ startEditing
    \/ TypeEditingTitle
    \/ saveEdit
    \/ saveEditOk
    \/ cancelEdit
    \/ toggleTodoStatus
    \/ toggleTodoStatusOk
    \/ onMountedOk
    \/ ServeList
    \/ ServeCreate
    \/ ServeReplace
    \/ ServeDelete

SpecNoFail == Init /\ [][NextNoFail]_vars

\* The component where every PUT fails: the server replaces no task, so no
\* continuation of saveEdit or toggleTodoStatus runs past its await.
NextPutsFail ==
    \/ onMounted
    \/ TypeNewTaskTitle
    \/ addTask
    \/ addTaskOk
    \/ addTaskFail
    \/ deleteTask
    \/ deleteTaskOk
    \/ deleteTaskFail
    \/ startEditing
    \/ TypeEditingTitle
    \/ saveEdit
    \/ saveEditFail
    \/ cancelEdit
    \/ toggleTodoStatus
    \/ toggleTodoStatusFail
    \/ onMountedOk
    \/ onMountedFail
    \/ ServeList
    \/ ServeCreate
    \/ ServeDelete
    \/ RequestFails

SpecPutsFail == Init /\ [][NextPutsFail]_vars

(***************************************************************************)
(* The properties.  Each one speaks of a step through `ev'`, the handler   *)
(* that took the step and its inputs, and states what the step may do in   *)
(* terms of its own, not the handlers', definitions.                       *)
(***************************************************************************)
Step(op) == ev'.op = op
Req == ev'.req[1]
Did(op) == ev.op = op
Whitespace(s) == \A i \in DOMAIN s : s[i] = " "
IdsOf(list) == {list[i].id : i \in DOMAIN list}
Rows(list, id) == {i \in DOMAIN list : list[i].id = id}
Added(r) == CopiesIn(r, net') > CopiesIn(r, net)

\* C1: addTask with a draft that is empty or only whitespace sends no
\* request and leaves the task list as it is, in whatever state it is
\* called.
C1_BlankTitleNeverCreates ==
    [][(Step("addTask") /\ Whitespace(newTaskTitle))
          => /\ net' = net
             /\ todos' = todos
             /\ tasks' = tasks]_vars

C1_Witness ==
    /\ Did("addTask")
    /\ ev.req = << >>
    /\ newTaskTitle = <<" ">>
    /\ net # EmptyBag

\* C2: handling the response of a successful create appends the record the
\* server returned, with the id the server assigned, at the end of the
\* list, keeps the earlier entries and their order, and clears the draft.
C2_CreateAppendsServerRecord ==
    [][Step("addTaskOk")
          => /\ Len(todos') = Len(todos) + 1
             /\ AsRecord(todos'[Len(todos')]) = Req.data[1]
             /\ todos'[Len(todos')].id = Req.data[1].id
             /\ SubSeq(todos', 1, Len(todos)) = todos
             /\ newTaskTitle' = EmptyStr]_vars

C2_Witness ==
    /\ Did("addTaskOk")
    /\ Len(todos) >= 2
    /\ todos[Len(todos)].id = ev.req[1].data[1].id
    /\ todos[1].id # todos[Len(todos)].id

C4_FailedToggleRestoresTask ==
    [][/\ Step("toggleTodoStatus")
             => /\ todos'[ev'.row].is_completed = ~todos[ev'.row].is_completed
                /\ Added(Req)
       /\ Step("toggleTodoStatusFail")
             => \A i \in Rows(todos', Req.id) :
                   todos'[i].is_completed = Req.originalStatus]_vars

\* What the code does for C4: a toggle flips the flag of the row's object
\* in the step that issues the PUT, which carries the new flag, and
\* changes nothing else in the list; handling the failure of that PUT
\* writes the value the flag had before the toggle back to that object.
\* The row shows that value again if the object is still in the list; an
\* entry that a save-edit or a load response has put in its place is left
\* as it is.
C4_FailedToggleRestoresObject ==
    [][/\ Step("toggleTodoStatus")
             => /\ todos'[ev'.row].is_completed = ~todos[ev'.row].is_completed
                /\ \A i \in DOMAIN todos : i # ev'.row => todos'[i] = todos[i]
                /\ DOMAIN todos' = DOMAIN todos
                /\ Added(Req) /\ Req.method = "PUT" /\ Req.phase = "sent"
                /\ Req.id = todos[ev'.row].id
                /\ Req.body[1].is_completed = ~todos[ev'.row].is_completed
                /\ Req.todo = todos[ev'.row].obj
                /\ Req.originalStatus = todos[ev'.row].is_completed
       /\ Step("toggleTodoStatusFail")
             => /\ DOMAIN todos' = DOMAIN todos
                /\ \A i \in DOMAIN todos :
                      IF todos[i].obj = Req.todo
                      THEN todos'[i] = [todos[i] EXCEPT
                                          !.is_completed = Req.originalStatus]
                      ELSE todos'[i] = todos[i]]_vars

\* A failed toggle whose object is still in the list, the flag reverted.
C4_Witness ==
    /\ Did("toggleTodoStatusFail")
    /\ \E i \in DOMAIN todos :
          /\ todos[i].obj = ev.req[1].todo
          /\ todos[i].is_completed = ev.req[1].originalStatus
          /\ ev.req[1].body[1].is_completed # todos[i].is_completed

\* C5: the PUT that saveEdit issues for a task carries the draft title of
\* the moment and the description and completion flag of the local copy of
\* the task, and typing into the draft changes no task.
C5_SaveEditCarriesOtherFields ==
    [][/\ Step("saveEdit")
             => /\ Added(Req) /\ Req.method = "PUT" /\ Req.phase = "sent"
                /\ Req.id = todos[ev'.row].id
                /\ Req.body[1].title = editingTitle
                /\ Req.body[1].description = todos[ev'.row].description
                /\ Req.body[1].is_completed = todos[ev'.row].is_completed
                /\ todos' = todos
       /\ Step("typeEditingTitle") => todos' = todos]_vars

C5_Witness ==
    /\ Did("saveEdit")
    /\ ev.req[1].body[1].description = "urgent"
    /\ ev.req[1].body[1].is_completed
    /\ ev.req[1].body[1].title # todos[ev.row].title
    /\ todos[ev.row].description = "urgent"

\* C6: handling the response of a successful save-edit puts the record the
\* server returned in the place of the (first) entry with the task's id,
\* leaves every other entry and the order as they are, and clears the edit
\* session whatever it holds.
C6_SaveEditReplacesInPlace ==
    [][Step("saveEditOk")
          => /\ DOMAIN todos' = DOMAIN todos
             /\ \A i \in DOMAIN todos :
                   IF todos[i].id = Req.id /\ \A j \in 1..(i - 1) :
                                                 todos[j].id # Req.id
                   THEN AsRecord(todos'[i]) = Req.data[1]
                   ELSE todos'[i] = todos[i]
             /\ editingTaskId' = NullId
             /\ editingTitle' = EmptyStr]_vars

C6_Witness ==
    /\ Did("saveEditOk")
    /\ Len(todos) >= 2
    /\ todos[1].id = ev.req[1].id
    /\ AsRecord(todos[1]) = ev.req[1].data[1]
    /\ todos[2].id # todos[1].id
    /\ editingTaskId = NullId

\* C7: handling the failure of a save-edit leaves the edit session (the
\* task id and the draft) and the task list as they are, and the session
\* is cleared by nothing but a successful save-edit or a cancel.
C7_FailedSaveKeepsSession ==
    [][/\ Step("saveEditFail")
             => UNCHANGED <<editingTaskId, editingTitle, todos>>
       /\ (editingTaskId # NullId /\ editingTaskId' = NullId)
             => (Step("saveEditOk") \/ Step("cancelEdit"))]_vars

C7_Witness ==
    /\ Did("saveEditFail")
    /\ editingTaskId = ev.req[1].id
    /\ editingTitle = ev.req[1].body[1].title
    /\ editingTitle # EmptyStr
    /\ ev.req[1].id \in IdsOf(todos)

\* C8: handling the failure of a create leaves the task list and the input
\* draft as they are.
C8_FailedCreateKeepsDraft ==
    [][Step("addTaskFail")
          => UNCHANGED <<todos, newTaskTitle>>]_vars

C8_Witness ==
    /\ Did("addTaskFail")
    /\ newTaskTitle = ev.req[1].body[1].title
    /\ ~Whitespace(newTaskTitle)

\* C9: a DELETE is sent by deleteTask after an accepted confirmation only;
\* when the user declines, deleteTask sends nothing and leaves the list as
\* it is.
C9_NoDeleteWithoutConfirm ==
    [][/\ (Step("deleteTask") /\ ~ev'.confirmed)
             => (net' = net /\ todos' = todos)
       /\ \A r \in BagToSet(net') :
             (r.method = "DELETE" /\ r.phase = "sent" /\ Added(r))
                => (Step("deleteTask") /\ ev'.confirmed)]_vars

C9_Witness ==
    /\ Did("deleteTask")
    /\ ~ev.confirmed
    /\ ev.row \in DOMAIN todos
    /\ \A r \in BagToSet(net) : r.method # "DELETE"

\* C10: startEditing, typing into the edit draft and cancelEdit send no
\* request and change no task; startEditing sets the session to the id and
\* the title of its task, and cancelEdit empties the session.
C10_EditSessionIsLocal ==
    [][/\ (Step("startEditing") \/ Step("typeEditingTitle")
                                \/ Step("cancelEdit"))
             => UNCHANGED <<todos, net, tasks>>
       /\ Step("startEditing")
             => /\ editingTaskId' = todos[ev'.row].id
                /\ editingTitle' = todos[ev'.row].title
       /\ Step("cancelEdit")
             => /\ editingTaskId' = NullId
                /\ editingTitle' = EmptyStr]_vars

C10_Witness ==
    /\ Did("cancelEdit")
    /\ editingTaskId = NullId
    /\ editingTitle = EmptyStr
    /\ todos[ev.row].title # EmptyStr


\* C11: in every state at most one row of the list is in edit mode (shows
\* the edit form): the session names no task or one task.
C11_OneRowInEditMode ==
    Cardinality({i \in DOMAIN todos : todos[i].id = editingTaskId}) <= 1

\* C17: the list never holds two entries with the same id, the server
\* assigning distinct ids and listing no task twice.
C17_NoDuplicateIds ==
    \A i, j \in DOMAIN todos : todos[i].id = todos[j].id => i = j

Settled(r) ==
    /\ net' = net (-) SetToBag({r})
    /\ issued' = issued

\* C13: handling the response of the startup list fetch makes the list the
\* response body, record for record and in its order, whatever the list
\* held before.
C13_LoadReplacesWholesale ==
    [][Step("onMountedOk")
          => /\ Len(todos') = Len(Req.data)
             /\ \A i \in DOMAIN todos' : AsRecord(todos'[i]) = Req.data[i]]_vars

\* A load response handled after a create response: the created task, which
\* the server holds, is not in the list any more.
C13_Witness ==
    /\ Did("onMountedOk")
    /\ net = EmptyBag
    /\ Len(todos) >= 1
    /\ Len(tasks) > Len(todos)
    /\ \A i \in DOMAIN todos : AsRecord(todos[i]) = ev.req[1].data[i]

\* C14 as claimed: handling a failed delete or a failed list fetch leaves
\* the list, the edit session and the input draft as they are and sends
\* nothing again; after a failed list fetch the list is empty.
C14_FailureLeavesListEmpty ==
    [][/\ Step("deleteTaskFail")
             => (UNCHANGED client /\ Settled(Req))
       /\ Step("onMountedFail")
             => (UNCHANGED client /\ Settled(Req) /\ todos' = << >>)]_vars

\* C14 as amended: handling a failed delete or a failed list fetch leaves
\* the list, the edit session and the input draft as they are and sends
\* nothing again; after a failed list fetch the list is what it was, which
\* is empty unless a create response was handled before.
C14_FailureLeavesState ==
    [][(Step("deleteTaskFail") \/ Step("onMountedFail"))
          => /\ UNCHANGED client
             /\ Settled(Req)
             /\ tasks' = tasks]_vars

\* A failed list fetch handled after a create response and a start of an
\* edit: the list and the session are kept.
C14_Witness ==
    /\ Did("onMountedFail")
    /\ todos # << >>
    /\ editingTaskId \in IdsOf(todos)

\* The tasks whose rows are in Editing: the listed tasks the session names.
EditingIds(list, session) == {id \in IdsOf(list) : id = session}
Entered(id) ==
    /\ id \notin EditingIds(todos, editingTaskId)
    /\ id \in EditingIds(todos', editingTaskId')
Left(id) ==
    /\ id \in EditingIds(todos, editingTaskId)
    /\ id \notin EditingIds(todos', editingTaskId')
IsToggleStep ==
    \/ Step("toggleTodoStatus")
    \/ Step("toggleTodoStatusOk")
    \/ Step("toggleTodoStatusFail")

DeleteHandledBefore(r) ==
    /\ \A j \in DOMAIN tasks : tasks[j].id # r.id
    /\ \A q \in BagToSet(net) : ~(q.method = "DELETE" /\ q.id = r.id)

\* C16 as claimed: of the responses of a delete and a save-edit of one task,
\* both successful, the one handled later wins: after the delete response
\* the task is absent, and after a save-edit response handled last the task
\* is in the list with the record the server returned.
C16_LastResponseWins ==
    [][/\ Step("deleteTaskOk") => Req.id \notin IdsOf(todos')
       /\ (Step("saveEditOk") /\ DeleteHandledBefore(Req))
             => \E i \in DOMAIN todos' : AsRecord(todos'[i]) = Req.data[1]]_vars

\* C16 as amended: after the delete response the task is absent; a
\* save-edit response handled after it replaces an entry only if the list
\* holds the task (again), and otherwise changes nothing in the list: the
\* task stays absent, the delete wins.
C16_DeleteWins ==
    [][/\ Step("deleteTaskOk") => Req.id \notin IdsOf(todos')
       /\ (Step("saveEditOk") /\ DeleteHandledBefore(Req))
             => IF Req.id \in IdsOf(todos)
                THEN \E i \in DOMAIN todos' :
                        AsRecord(todos'[i]) = Req.data[1]
                ELSE todos' = todos]_vars

C16_Witness ==
    /\ Did("saveEditOk")
    /\ ev.req[1].id \notin IdsOf(todos)
    /\ \A j \in DOMAIN tasks : tasks[j].id # ev.req[1].id
    /\ \A q \in BagToSet(net) : q.method # "DELETE"

\* C20 as claimed: whenever an edit session is active, the id it names is
\* the id of a task in the local list.
C20_SessionNamesListedTask ==
    editingTaskId # NullId => editingTaskId \in IdsOf(todos)

\* The case of C20: a delete or load response handled while a row was being
\* edited has left the session naming a task that is not in the list.
C20_Witness ==
    /\ Did("deleteTaskOk") \/ Did("onMountedOk")
    /\ editingTaskId # NullId
    /\ editingTaskId \notin IdsOf(todos)

RecordsOf(list) == {AsRecord(list[i]) : i \in DOMAIN list}
ServerRecords == {tasks[j] : j \in DOMAIN tasks}
TogglesInFlight(id) ==
    {q \in BagToSet(net) : q.from = "toggleTodoStatus" /\ q.id = id}

\* C18 as claimed: where no request fails, in every state after startup
\* with no request outstanding the local list holds the tasks of the server
\* collection, with the same title, description and completion flag.
C18_QuiescentListMatchesServer ==
    (mounted /\ net = EmptyBag) => RecordsOf(todos) = ServerRecords

\* The case of C18: no request has failed, none is outstanding, and the
\* list and the server collection differ.
C18_Witness ==
    /\ mounted
    /\ net = EmptyBag
    /\ RecordsOf(todos) # ServerRecords

\* C19 as claimed: where every toggle request fails, once the failures of
\* the toggles of a task have all been handled, the task's local completion
\* flag is the one the server holds for it.
C19_FailedTogglesRestoreFlag ==
    \A i \in DOMAIN todos :
        TogglesInFlight(todos[i].id) = {}
            => \A j \in DOMAIN tasks :
                  tasks[j].id = todos[i].id
                      => todos[i].is_completed = tasks[j].is_completed

\* The case of C19: the failure of a toggle has been handled, no toggle of
\* its task is in flight, and the task's local flag differs from the
\* server's.
C19_Witness ==
    /\ Did("toggleTodoStatusFail")
    /\ TogglesInFlight(ev.req[1].id) = {}
    /\ \E i \in DOMAIN todos, j \in DOMAIN tasks :
          /\ todos[i].id = ev.req[1].id
          /\ tasks[j].id = ev.req[1].id
          /\ todos[i].is_completed # tasks[j].is_completed

PutsInFlight(id) ==
    {q \in BagToSet(net) : q.method = "PUT" /\ q.id = id}

\* C12 as claimed, at the point where the last successful server response
\* for a task is known: right after the response of a successful toggle or
\* save-edit of a task has been handled, with no other toggle or save-edit
\* of that task in flight, every entry of the list with the task's id shows
\* the title and the completion flag of that response.
C12_DisplayMatchesLastResponse ==
    (Did("toggleTodoStatusOk") \/ Did("saveEditOk"))
        => \A i \in DOMAIN todos :
              (todos[i].id = ev.req[1].id /\ PutsInFlight(todos[i].id) = {})
                  => /\ todos[i].title = ev.req[1].data[1].title
                     /\ todos[i].is_completed
                           = ev.req[1].data[1].is_completed

\* The case of C12: the responses of the overlapping requests of one task
\* have all been handled, that of a toggle last, and the list shows the
\* task with another title or flag than the response handled last.
C12_Witness ==
    /\ Did("toggleTodoStatusOk")
    /\ PutsInFlight(ev.req[1].id) = {}
    /\ \E i \in DOMAIN todos :
          /\ todos[i].id = ev.req[1].id
          /\ \/ todos[i].title # ev.req[1].data[1].title
             \/ todos[i].is_completed # ev.req[1].data[1].is_completed

=============================================================================
